---------------------------- MODULE Spec2Model ----------------------------
(***************************************************************************)
(* StockMerge: the merge of a store XML feed with a supplier XML feed.     *)
(*                                                                         *)
(* The model follows src/app.py (compute_merged) and src/stok.py           *)
(* (merge_xml_feeds).  A text is a sequence of one-character strings, so   *)
(* that str.strip, str.replace and the Decimal constructor are modelled by *)
(* what they do to the characters; a Decimal is a sign, a sequence of      *)
(* decimal digits and an exponent, so that the 28-digit context precision  *)
(* of the decimal module applies to sums as it does in the program.        *)
(***************************************************************************)
EXTENDS Integers, Sequences, FiniteSets, TLC

(***************************************************************************)
(* Texts                                                                   *)
(***************************************************************************)

\* Python's None for an element text (<stok/> has text None).  No text is
\* equal to it: every character of a text is a one-character string.
None == <<"None">>

Whitespace == {" ", "\t", "\n"}

DigitChars == {"0", "1", "2", "3", "4", "5", "6", "7", "8", "9"}

DigitVal(c) ==
    CASE c = "0" -> 0 [] c = "1" -> 1 [] c = "2" -> 2 [] c = "3" -> 3
      [] c = "4" -> 4 [] c = "5" -> 5 [] c = "6" -> 6 [] c = "7" -> 7
      [] c = "8" -> 8 [] c = "9" -> 9

DigitChar(d) ==
    CASE d = 0 -> "0" [] d = 1 -> "1" [] d = 2 -> "2" [] d = 3 -> "3"
      [] d = 4 -> "4" [] d = 5 -> "5" [] d = 6 -> "6" [] d = 7 -> "7"
      [] d = 8 -> "8" [] d = 9 -> "9"

\* str.lower on the letters the Decimal constructor looks at.
Lower(c) ==
    CASE c = "E" -> "e" [] c = "I" -> "i" [] c = "N" -> "n" [] c = "F" -> "f"
      [] c = "T" -> "t" [] c = "Y" -> "y" [] c = "A" -> "a" [] c = "S" -> "s"
      [] OTHER -> c

LowerText(t) == [i \in 1..Len(t) |-> Lower(t[i])]

\* The index of the first / last character of t that is no whitespace
\* (Len(t) + 1 / 0 when there is none).
RECURSIVE FirstNonSpace(_, _)
FirstNonSpace(t, i) ==
    IF i > Len(t) \/ t[i] \notin Whitespace THEN i ELSE FirstNonSpace(t, i + 1)

RECURSIVE LastNonSpace(_, _)
LastNonSpace(t, i) ==
    IF i < 1 \/ t[i] \notin Whitespace THEN i ELSE LastNonSpace(t, i - 1)

\* str.strip()
strip(t) ==
    LET a == FirstNonSpace(t, 1)
        b == LastNonSpace(t, Len(t))
    IN  IF a > b THEN <<>> ELSE SubSeq(t, a, b)

\* str.replace(",", ".")
replace_comma(t) == [i \in 1..Len(t) |-> IF t[i] = "," THEN "." ELSE t[i]]

\* The index of the first character of t that is in S, 0 when there is none.
RECURSIVE IndexOf(_, _, _)
IndexOf(t, S, i) ==
    IF i > Len(t) THEN 0 ELSE IF t[i] \in S THEN i ELSE IndexOf(t, S, i + 1)

AllDigits(t) == \A i \in 1..Len(t) : t[i] \in DigitChars

(***************************************************************************)
(* Decimals                                                                *)
(***************************************************************************)

\* decimal.getcontext().prec of the default context: the number of
\* significant digits a sum is rounded to.
Prec == 28

\* A coefficient is a sequence of digits, most significant first, without
\* leading zeros; zero is <<0>>.
RECURSIVE StripZeros(_)
StripZeros(d) ==
    IF Len(d) > 1 /\ d[1] = 0 THEN StripZeros(Tail(d))
    ELSE IF Len(d) = 0 THEN <<0>> ELSE d

Zeros(n) == [i \in 1..n |-> 0]

PadLeft(d, n) == Zeros(n - Len(d)) \o d

IsZeroDigits(d) == \A i \in 1..Len(d) : d[i] = 0

\* a + b + c over the digits 1..i of two sequences of the same length.
RECURSIVE AddCarry(_, _, _, _)
AddCarry(a, b, i, c) ==
    IF i = 0 THEN (IF c = 1 THEN <<1>> ELSE <<>>)
    ELSE LET s == a[i] + b[i] + c
         IN  AddCarry(a, b, i - 1, s \div 10) \o <<s % 10>>

\* a - b - c over the digits 1..i of two sequences of the same length, a >= b.
RECURSIVE SubBorrow(_, _, _, _)
SubBorrow(a, b, i, c) ==
    IF i = 0 THEN <<>>
    ELSE LET s == a[i] - b[i] - c
         IN  IF s < 0 THEN SubBorrow(a, b, i - 1, 1) \o <<s + 10>>
             ELSE SubBorrow(a, b, i - 1, 0) \o <<s>>

\* Whether a < b, for two digit sequences of the same length.
RECURSIVE LessDigits(_, _, _)
LessDigits(a, b, i) ==
    IF i > Len(a) THEN FALSE
    ELSE IF a[i] # b[i] THEN a[i] < b[i] ELSE LessDigits(a, b, i + 1)

AddDigits(a, b) ==
    LET n == IF Len(a) > Len(b) THEN Len(a) ELSE Len(b)
    IN  StripZeros(AddCarry(PadLeft(a, n), PadLeft(b, n), n, 0))

\* a - b for a >= b.
SubDigits(a, b) ==
    LET n == IF Len(a) > Len(b) THEN Len(a) ELSE Len(b)
    IN  StripZeros(SubBorrow(PadLeft(a, n), PadLeft(b, n), n, 0))

LessMagnitude(a, b) ==
    LET n == IF Len(a) > Len(b) THEN Len(a) ELSE Len(b)
    IN  LessDigits(PadLeft(a, n), PadLeft(b, n), 1)

Fin(sign, coef, exp) == [kind |-> "fin", sign |-> sign, coef |-> coef, exp |-> exp]

Special(kind, sign) == [kind |-> kind, sign |-> sign, coef |-> <<0>>, exp |-> 0]

\* Decimal(0)
DecimalZero == Fin(0, <<0>>, 0)

\* Whether the digits rest, cut off after a digit `last`, round the kept
\* digits up under ROUND_HALF_EVEN.
RoundsUp(last, rest, half) ==
    \/ LessDigits(half, rest, 1)
    \/ rest = half /\ last % 2 = 1

\* The kept digits r, of which n digits were cut off, as a Decimal: a carry
\* out of the kept digits drops one more digit.
Rounded(sign, r, exp, n) ==
    IF Len(r) > Prec THEN Fin(sign, SubSeq(r, 1, Prec), exp + n + 1)
    ELSE Fin(sign, r, exp + n)

RoundTo(sign, keep, rest, exp) ==
    Rounded(sign,
            IF RoundsUp(keep[Prec], rest, <<5>> \o Zeros(Len(rest) - 1))
            THEN AddDigits(keep, <<1>>) ELSE keep,
            exp, Len(rest))

\* Decimal._fix: a finite value rounded to Prec significant digits,
\* ROUND_HALF_EVEN (the default context's rounding).
Fix(x) ==
    IF Len(x.coef) <= Prec THEN x
    ELSE RoundTo(x.sign, SubSeq(x.coef, 1, Prec),
                 SubSeq(x.coef, Prec + 1, Len(x.coef)), x.exp)

\* The coefficient of x at the exponent e <= x.exp.
Rescaled(x, e) ==
    IF IsZeroDigits(x.coef) THEN <<0>> ELSE x.coef \o Zeros(x.exp - e)

\* The sum of two finite values whose coefficients ca and cb are taken at the
\* same exponent e, before rounding.
AddAligned(sa, ca, sb, cb, e) ==
    IF IsZeroDigits(ca) /\ IsZeroDigits(cb)
    THEN Fin(IF sa < sb THEN sa ELSE sb, <<0>>, e)
    ELSE IF sa = sb THEN Fin(sa, AddDigits(ca, cb), e)
    ELSE IF LessMagnitude(ca, cb) THEN Fin(sb, SubDigits(cb, ca), e)
    ELSE IF LessMagnitude(cb, ca) THEN Fin(sa, SubDigits(ca, cb), e)
    ELSE Fin(0, <<0>>, e)

AddAtExp(a, b, e) == AddAligned(a.sign, Rescaled(a, e), b.sign, Rescaled(b, e), e)

\* Decimal.__add__ of two finite values: the exact sum at the smaller
\* exponent, then rounded to the context precision.
AddFinite(a, b) == Fix(AddAtExp(a, b, IF a.exp < b.exp THEN a.exp ELSE b.exp))

\* Decimal.__add__ under the default context, whose traps include
\* InvalidOperation: a signaling NaN and Infinity + -Infinity raise.
DecimalAdd(a, b) ==
    IF a.kind = "snan" \/ b.kind = "snan"
    THEN [exc |-> "InvalidOperation", val |-> DecimalZero]
    ELSE IF a.kind = "nan" THEN [exc |-> "none", val |-> a]
    ELSE IF b.kind = "nan" THEN [exc |-> "none", val |-> b]
    ELSE IF a.kind = "inf"
    THEN IF b.kind = "inf" /\ a.sign # b.sign
         THEN [exc |-> "InvalidOperation", val |-> DecimalZero]
         ELSE [exc |-> "none", val |-> a]
    ELSE IF b.kind = "inf" THEN [exc |-> "none", val |-> b]
    ELSE [exc |-> "none", val |-> AddFinite(a, b)]

\* x < 0 (Decimal.__lt__): an ordering comparison with a NaN raises.
DecimalLtZero(x) ==
    IF x.kind \in {"nan", "snan"} THEN [exc |-> "InvalidOperation", val |-> FALSE]
    ELSE IF x.kind = "inf" THEN [exc |-> "none", val |-> x.sign = 1]
    ELSE [exc |-> "none", val |-> x.sign = 1 /\ ~IsZeroDigits(x.coef)]

\* x == x.to_integral_value(): an infinity is its own integral value, a
\* quiet NaN is equal to nothing, a signaling NaN raises.
IsIntegral(x) ==
    IF x.kind = "snan" THEN [exc |-> "InvalidOperation", val |-> FALSE]
    ELSE IF x.kind = "nan" THEN [exc |-> "none", val |-> FALSE]
    ELSE IF x.kind = "inf" THEN [exc |-> "none", val |-> TRUE]
    ELSE [exc |-> "none",
          val |-> \/ x.exp >= 0
                  \/ IsZeroDigits(x.coef)
                  \/ /\ -x.exp < Len(x.coef)
                     /\ IsZeroDigits(SubSeq(x.coef, Len(x.coef) + x.exp + 1, Len(x.coef)))]

\* The digits of int(x) for a finite x: the value truncated toward zero.
IntDigits(x) ==
    IF IsZeroDigits(x.coef) THEN <<0>>
    ELSE IF x.exp >= 0 THEN x.coef \o Zeros(x.exp)
    ELSE IF -x.exp >= Len(x.coef) THEN <<0>>
    ELSE SubSeq(x.coef, 1, Len(x.coef) + x.exp)

DigitsText(d) == [i \in 1..Len(d) |-> DigitChar(d[i])]

SignedText(sign, d) ==
    (IF sign = 1 /\ ~IsZeroDigits(d) THEN <<"-">> ELSE <<>>) \o DigitsText(d)

\* str(int(x)): int() of an infinity raises OverflowError, of a NaN ValueError.
StrInt(x) ==
    IF x.kind = "inf" THEN [exc |-> "OverflowError", val |-> <<>>]
    ELSE IF x.kind # "fin" THEN [exc |-> "ValueError", val |-> <<>>]
    ELSE [exc |-> "none", val |-> SignedText(x.sign, IntDigits(x))]

\* The digits c with a decimal point before the last n of them.
PointText(c, n) ==
    IF n >= Len(c) THEN <<"0", ".">> \o DigitsText(Zeros(n - Len(c)) \o c)
    ELSE DigitsText(SubSeq(c, 1, Len(c) - n)) \o <<".">>
           \o DigitsText(SubSeq(c, Len(c) - n + 1, Len(c)))

\* format(x, "f") of a finite x: fixed point, every digit the value carries.
FormatF(x) ==
    (IF x.sign = 1 THEN <<"-">> ELSE <<>>)
      \o (IF x.exp >= 0 THEN DigitsText(IntDigits(x)) ELSE PointText(x.coef, -x.exp))

RECURSIVE DigitsToInt(_, _)
DigitsToInt(t, acc) ==
    IF t = <<>> THEN acc ELSE DigitsToInt(Tail(t), 10 * acc + DigitVal(t[1]))

StartsWith(t, p) == Len(t) >= Len(p) /\ SubSeq(t, 1, Len(p)) = p

DigitsOf(t) == [i \in 1..Len(t) |-> DigitVal(t[i])]

NotDecimal == [ok |-> FALSE, val |-> DecimalZero]

\* The number with the integer digits intp, the fraction digits frac and the
\* exponent exVal; exOk: the exponent, if there is one, is well-formed.
DecimalOfFields(sign, intp, frac, exOk, exVal) ==
    IF ~(AllDigits(intp) /\ AllDigits(frac) /\ Len(intp) + Len(frac) > 0 /\ exOk)
    THEN NotDecimal
    ELSE [ok |-> TRUE,
          val |-> Fin(sign, StripZeros(DigitsOf(intp \o frac)), exVal - Len(frac))]

\* The mantissa, split at its first point (at index dot, 0 if it has none).
DecimalOfMantissa(sign, mant, dot, exOk, exVal) ==
    IF dot = 0 THEN DecimalOfFields(sign, mant, <<>>, exOk, exVal)
    ELSE DecimalOfFields(sign, SubSeq(mant, 1, dot - 1),
                         SubSeq(mant, dot + 1, Len(mant)), exOk, exVal)

ExponentDigits(ex) == IF Len(ex) > 0 /\ ex[1] \in {"+", "-"} THEN Tail(ex) ELSE ex

ExponentOk(ex) == Len(ExponentDigits(ex)) > 0 /\ AllDigits(ExponentDigits(ex))

ExponentVal(ex) ==
    IF ~ExponentOk(ex) THEN 0
    ELSE IF ex[1] = "-" THEN -DigitsToInt(ExponentDigits(ex), 0)
    ELSE DigitsToInt(ExponentDigits(ex), 0)

\* The number l = mantissa [e exponent], split at its first "e" (at index
\* ePos, 0 if it has none).
DecimalOfNumber(sign, l, ePos) ==
    IF ePos = 0 THEN DecimalOfMantissa(sign, l, IndexOf(l, {"."}, 1), TRUE, 0)
    ELSE DecimalOfMantissa(sign, SubSeq(l, 1, ePos - 1),
                           IndexOf(SubSeq(l, 1, ePos - 1), {"."}, 1),
                           ExponentOk(SubSeq(l, ePos + 1, Len(l))),
                           ExponentVal(SubSeq(l, ePos + 1, Len(l))))

\* The text after the sign, in lower case: Inf, Infinity, NaN and sNaN
\* (with diagnostic digits) are values of their own.
DecimalOfBody(sign, l) ==
    IF l = <<"i", "n", "f">> \/ l = <<"i", "n", "f", "i", "n", "i", "t", "y">>
    THEN [ok |-> TRUE, val |-> Special("inf", sign)]
    ELSE IF StartsWith(l, <<"n", "a", "n">>) /\ AllDigits(SubSeq(l, 4, Len(l)))
    THEN [ok |-> TRUE, val |-> Special("nan", sign)]
    ELSE IF StartsWith(l, <<"s", "n", "a", "n">>) /\ AllDigits(SubSeq(l, 5, Len(l)))
    THEN [ok |-> TRUE, val |-> Special("snan", sign)]
    ELSE DecimalOfNumber(sign, l, IndexOf(l, {"e"}, 1))

DecimalOfSigned(t) ==
    IF Len(t) > 0 /\ t[1] \in {"+", "-"}
    THEN DecimalOfBody(IF t[1] = "-" THEN 1 ELSE 0, LowerText(Tail(t)))
    ELSE DecimalOfBody(0, LowerText(t))

\* Decimal(text): the constructor's grammar (underscores are dropped
\* first).  ok is FALSE where the constructor raises InvalidOperation.
DecimalOfText(t0) == DecimalOfSigned(SelectSeq(t0, LAMBDA c : c # "_"))

\* try: return Decimal(...) except: warning, return Decimal(0)
DecimalOrZero(d) ==
    IF d.ok THEN [val |-> d.val, warned |-> FALSE]
    ELSE [val |-> DecimalZero, warned |-> TRUE]

\* parse_decimal: 0 for a missing, a blank or an unparsable text, the latter
\* with a warning in the log.
parse_decimal(text) ==
    IF text = None THEN [val |-> DecimalZero, warned |-> FALSE]
    ELSE IF strip(text) = <<>> THEN [val |-> DecimalZero, warned |-> FALSE]
    ELSE DecimalOrZero(DecimalOfText(replace_comma(strip(text))))

(***************************************************************************)
(* XML documents                                                           *)
(*                                                                         *)
(* A byte buffer is modelled by what xml.etree.ElementTree makes of it: it *)
(* is either not well-formed XML, or a root element with its children.  An *)
(* element has a tag, a text (None for an element without text) and        *)
(* children.  The products are the root's children, the fields of a        *)
(* product are its children.                                               *)
(***************************************************************************)

El(tag, text) == [tag |-> tag, text |-> text]

Node(tag, children) == [tag |-> tag, children |-> children]

Doc(tag, children) == [wf |-> TRUE, root |-> Node(tag, children)]

\* No tree: the value of a variable that holds no element.
NoTree == Node("", <<>>)

\* A buffer that is not well-formed XML.
Malformed == [wf |-> FALSE, root |-> NoTree]

\* Element.find(tag): the index of the first child with the tag, 0 for None.
RECURSIVE FindFrom(_, _, _)
FindFrom(children, tag, i) ==
    IF i > Len(children) THEN 0
    ELSE IF children[i].tag = tag THEN i ELSE FindFrom(children, tag, i + 1)

find(node, tag) == FindFrom(node.children, tag, 1)

\* ET.SubElement(node, tag): a new child without text, after the others.
SubElement(node, tag) == [node EXCEPT !.children = Append(@, El(tag, None))]

\* ET.tostring(root, ...): the document of the tree.  An empty text is
\* written like no text (<stok />), and reads back as None.
tostring(root) ==
    [wf   |-> TRUE,
     root |-> [root EXCEPT !.children =
                 [i \in 1..Len(@) |->
                    [@[i] EXCEPT !.children =
                       [j \in 1..Len(@) |->
                          IF @[j].text = <<>> THEN [@[j] EXCEPT !.text = None]
                          ELSE @[j]]]]]]

(***************************************************************************)
(* load_products                                                           *)
(***************************************************************************)

LogEntry(level, event, arg) == [level |-> level, event |-> event, arg |-> arg]

\* The position of key in a dict (a sequence of entries in insertion order),
\* 0 when the dict has no such key.
RECURSIVE DictIndex(_, _, _)
DictIndex(d, key, i) ==
    IF i > Len(d) THEN 0
    ELSE IF d[i].key = key THEN i ELSE DictIndex(d, key, i + 1)

\* A dict that kept every assignment as an entry of its own.
DictPutAppend(d, entry) == Append(d, entry)

\* A dict in which an assignment to a key it holds is lost.
DictPutFirst(d, entry) ==
    IF DictIndex(d, entry.key, 1) = 0 THEN Append(d, entry) ELSE d

\* d[key] = value of a Python dict: a new key goes to the end, a key the
\* dict holds keeps its place and takes the new value.
DictPut(d, entry) ==
    LET i == DictIndex(d, entry.key, 1)
    IN  IF i = 0 THEN Append(d, entry) ELSE [d EXCEPT ![i] = entry]

\* products[key] = {"urun": urun, "stok": stok}, after the warning that
\* parse_decimal logs for a text that is no number.
ProductEntry(acc, i, key, text, parsed) ==
    [products |-> DictPut(acc.products, [key |-> key, urun |-> i, stok |-> parsed.val]),
     log      |-> IF parsed.warned
                  THEN Append(acc.log, LogEntry("warning", "non_numeric_stock", strip(text)))
                  ELSE acc.log]

\* stok_el.text if stok_el is not None else None
StokTextOf(urun, stok_el) == IF stok_el # 0 THEN urun.children[stok_el].text ELSE None

IndexKeyed(acc, i, key, text) == ProductEntry(acc, i, key, text, parse_decimal(text))

\* The loop body without the test for a blank key text.
IndexOneBlankKey(acc, i, urun, key_el) ==
    IF urun.tag # "urun" THEN acc
    ELSE IF key_el = 0 \/ urun.children[key_el].text = None THEN acc
    ELSE IndexKeyed(acc, i, strip(urun.children[key_el].text),
                    StokTextOf(urun, find(urun, "stok")))

\* The body of the loop for child i of the root, urun, whose key element is
\* its child key_el (0: it has none).  A child that is no <urun> is not in
\* root.findall("urun"); a product without a key is skipped.
IndexOne(acc, i, urun, key_el) ==
    IF urun.tag # "urun" THEN acc
    ELSE IF \/ key_el = 0
            \/ urun.children[key_el].text = None
            \/ strip(urun.children[key_el].text) = <<>>
    THEN acc
    ELSE IndexKeyed(acc, i, strip(urun.children[key_el].text),
                    StokTextOf(urun, find(urun, "stok")))

\* The loop of load_products over root.findall("urun"), from child i on:
\* acc holds the dict built so far and the warnings logged so far.
RECURSIVE IndexProducts(_, _, _, _)
IndexProducts(root, kf, i, acc) ==
    IF i > Len(root.children) THEN acc
    ELSE IndexProducts(root, kf, i + 1,
                       IndexOne(acc, i, root.children[i], find(root.children[i], kf)))

Loaded(root, r) ==
    [exc |-> "none", root |-> root, products |-> r.products, log |-> r.log]

NotLoaded(e, lg) == [exc |-> e, root |-> NoTree, products |-> <<>>, log |-> lg]

\* load_products without the test of the root tag.
load_products_any_root(xml_bytes, kf) ==
    IF ~xml_bytes.wf
    THEN NotLoaded("ValueError_format", <<LogEntry("error", "xml_parse", <<>>)>>)
    ELSE Loaded(xml_bytes.root,
                IndexProducts(xml_bytes.root, kf, 1, [products |-> <<>>, log |-> <<>>]))

\* load_products(xml_bytes, key_field) of app.py: the root and the dict
\* key -> (node, stock), or the ValueError raised.  log is what the call
\* writes to the logger.
load_products(xml_bytes, kf) ==
    IF ~xml_bytes.wf
    THEN NotLoaded("ValueError_format", <<LogEntry("error", "xml_parse", <<>>)>>)
    ELSE IF xml_bytes.root.tag # "urunler" THEN NotLoaded("ValueError_root", <<>>)
    ELSE Loaded(xml_bytes.root,
                IndexProducts(xml_bytes.root, kf, 1, [products |-> <<>>, log |-> <<>>]))

\* load_products of stok.py: the same, without the log line on a parse error.
stok_load_products(xml_bytes, kf) ==
    IF ~xml_bytes.wf THEN NotLoaded("ValueError_format", <<>>)
    ELSE IF xml_bytes.root.tag # "urunler" THEN NotLoaded("ValueError_root", <<>>)
    ELSE Loaded(xml_bytes.root,
                IndexProducts(xml_bytes.root, kf, 1, [products |-> <<>>, log |-> <<>>]))

(***************************************************************************)
(* The merge loop                                                          *)
(***************************************************************************)

PyInt(x, d) == [type |-> "int", val |-> Fin(IF IsZeroDigits(d) THEN 0 ELSE x.sign, d, 0)]

PyNumberOf(x, integral) ==
    IF integral.exc # "none" THEN [exc |-> integral.exc, val |-> PyInt(DecimalZero, <<0>>)]
    ELSE IF ~integral.val THEN [exc |-> "none", val |-> [type |-> "float", val |-> x]]
    ELSE IF x.kind = "inf" THEN [exc |-> "OverflowError", val |-> PyInt(DecimalZero, <<0>>)]
    ELSE [exc |-> "none", val |-> PyInt(x, IntDigits(x))]

\* int(x) if x == x.to_integral_value() else float(x), as a row holds it.
\* A float is kept as the decimal it is the nearest double of.
PyNumber(x) == PyNumberOf(x, IsIntegral(x))

DisplayOf(node, el) ==
    IF el # 0 /\ node.children[el].text # None /\ node.children[el].text # <<>>
    THEN strip(node.children[el].text)
    ELSE <<>>

\* el.text.strip() if el is not None and el.text else ""
DisplayText(node, tag) == DisplayOf(node, find(node, tag))

StockTextOf(total, integral) ==
    IF integral.exc # "none" THEN [exc |-> integral.exc, val |-> <<>>]
    ELSE IF integral.val THEN StrInt(total)
    ELSE [exc |-> "none", val |-> FormatF(total)]

\* The text written to <stok>: str(int(total)) for an integral total,
\* format(total, "f") otherwise.
StockText(total) == StockTextOf(total, IsIntegral(total))

SupplierStockAt(supplier, i) == IF i = 0 THEN DecimalZero ELSE supplier[i].stok

\* The supplier's stock for key: supplier_products[key]["stok"] if the key
\* is in the dict, else Decimal(0).
SupplierStock(supplier, key) == SupplierStockAt(supplier, DictIndex(supplier, key, 1))

\* if stok_toplam < 0: stok_toplam = Decimal(0)
Clamp(total, negative) == IF negative THEN DecimalZero ELSE total

\* A <stok> child created whether or not the product has one.
EnsureStokAlways(node) == SubElement(node, "stok")

\* stok_el = urun_node.find("stok"); if stok_el is None: SubElement(...)
EnsureStok(node) == IF find(node, "stok") = 0 THEN SubElement(node, "stok") ELSE node

\* The text written to a new <stok> child, after the others.
SetStokAppended(node, text) == [node EXCEPT !.children = Append(@, El("stok", text))]

\* stok_el.text = text
SetStok(node, text) == [node EXCEPT !.children[find(node, "stok")].text = text]

Row(node, key, n_magaza, n_tedarikci, n_toplam) ==
    [key            |-> key,
     barkod         |-> DisplayText(node, "barkod"),
     urunAdi        |-> DisplayText(node, "urunAdi"),
     stok_magaza    |-> n_magaza,
     stok_tedarikci |-> n_tedarikci,
     stok_toplam    |-> n_toplam]

\* merged_rows.append({...}): the three numbers are converted in this order,
\* and the first conversion that raises ends the loop.
MergeRow(st, sdata, n_magaza, n_tedarikci, n_toplam) ==
    IF n_magaza.exc # "none" THEN [st EXCEPT !.exc = n_magaza.exc]
    ELSE IF n_tedarikci.exc # "none" THEN [st EXCEPT !.exc = n_tedarikci.exc]
    ELSE IF n_toplam.exc # "none" THEN [st EXCEPT !.exc = n_toplam.exc]
    ELSE [st EXCEPT !.rows = Append(@, Row(st.root.children[sdata.urun], sdata.key,
                                           n_magaza.val, n_tedarikci.val, n_toplam.val))]

\* The text of the total is computed, then assigned to stok_el.text.
MergeWrite(st, sdata, stok_tedarikci, stok_toplam, text) ==
    IF text.exc # "none" THEN [st EXCEPT !.exc = text.exc]
    ELSE MergeRow([st EXCEPT !.root.children[sdata.urun] = SetStok(@, text.val)],
                  sdata, PyNumber(sdata.stok), PyNumber(stok_tedarikci),
                  PyNumber(stok_toplam))

\* The <stok> child is found or created before the text is computed.
MergeClamped(st, sdata, stok_tedarikci, stok_toplam) ==
    MergeWrite([st EXCEPT !.root.children[sdata.urun] = EnsureStok(@)],
               sdata, stok_tedarikci, stok_toplam, StockText(stok_toplam))

\* if stok_toplam < 0: the warning (with warn, that is in app.py), the clamp.
MergeCompared(st, sdata, stok_tedarikci, total, negative, warn) ==
    IF negative.exc # "none" THEN [st EXCEPT !.exc = negative.exc]
    ELSE MergeClamped([st EXCEPT !.log = IF negative.val /\ warn
                                         THEN Append(@, LogEntry("warning", "negative_stock", total))
                                         ELSE @],
                      sdata, stok_tedarikci, Clamp(total, negative.val))

\* stok_toplam = stok_magaza + stok_tedarikci
MergeAdded(st, sdata, stok_tedarikci, sum, warn) ==
    IF sum.exc # "none" THEN [st EXCEPT !.exc = sum.exc]
    ELSE MergeCompared(st, sdata, stok_tedarikci, sum.val, DecimalLtZero(sum.val), warn)

MergeSum(st, sdata, stok_tedarikci, warn) ==
    MergeAdded(st, sdata, stok_tedarikci, DecimalAdd(sdata.stok, stok_tedarikci), warn)

\* One pass of the loop body for the store entry sdata.  st holds the store
\* tree, the rows and the log so far, and the exception that ended the loop
\* ("none" while it runs).  An exception leaves the tree as the statements
\* before it made it.  warn: whether a negative total is logged (app.py does,
\* stok.py does not).
MergeEntry(st, sdata, supplier, warn) ==
    MergeSum(st, sdata, SupplierStock(supplier, sdata.key), warn)

\* for key, sdata in store_products.items(): the entries from i on, in the
\* dict's order, until one raises.
RECURSIVE MergeLoop(_, _, _, _, _)
MergeLoop(st, store, supplier, i, warn) ==
    IF i > Len(store) \/ st.exc # "none" THEN st
    ELSE MergeLoop(MergeEntry(st, store[i], supplier, warn), store, supplier, i + 1, warn)

(***************************************************************************)
(* The state: one call of compute_merged (app.py) or of merge_xml_feeds    *)
(* (stok.py) on two byte buffers and a key field.                          *)
(***************************************************************************)

VARIABLES
    impl,               \* "app": compute_merged, "stok": merge_xml_feeds
    store_xml,          \* the argument store_xml
    supplier_xml,       \* the argument supplier_xml
    key_field,          \* the argument key_field
    pc,                 \* where the call is
    store_root,         \* the local store_root (NoTree before it is bound)
    store_products,     \* the local store_products
    supplier_products,  \* the local supplier_products
    merged_rows,        \* the local merged_rows
    log,                \* what the logger has received
    exc,                \* the exception the call raised, "none" if none
    result,             \* what the call returned
    cache,              \* MERGED_XML_CACHE of stok.py
    handlers,           \* the requests the server's threads are handling
    calls,              \* the number of requests received so far
    last_ok             \* the last /merge request that ended in success

\* The variables of one call of the merge, and those of the front-end.
core == <<impl, store_xml, supplier_xml, key_field, pc, store_root,
          store_products, supplier_products, merged_rows, log, exc, result>>

web == <<cache, handlers, calls, last_ok>>

vars == <<core, web>>

args == <<impl, store_xml, supplier_xml, key_field>>

\* The accepted key fields.
KeyFields == {"barkod", "stokKodu"}

NoResult == [returned |-> FALSE, xml |-> Malformed, rows |-> <<>>]

Start ==
    /\ pc = "call"
    /\ store_root = NoTree
    /\ store_products = <<>>
    /\ supplier_products = <<>>
    /\ merged_rows = <<>>
    /\ log = <<>>
    /\ exc = "none"
    /\ result = NoResult

\* A request that has not been answered.
NoResponse == [kind |-> "none", flash |-> "", body |-> <<>>]

\* A thread of the server that handles no request.
Idle == [route |-> "idle", pc |-> "idle", call |-> 0, upload |-> <<>>,
         xml |-> Malformed, rows |-> <<>>, after_ok |-> FALSE,
         response |-> NoResponse]

\* The largest number of requests the server handles at a time.
MaxThreads == 2

Threads == 1..MaxThreads

\* MERGED_XML_CACHE = {}: a key the dict does not hold has call 0.  The call
\* of a value is the /merge request that stored it.
NoEntry == [call |-> 0, val |-> <<>>]

EmptyCache == [data |-> NoEntry, rows |-> NoEntry]

\* The front-end before its first request.
WebStart ==
    /\ cache = EmptyCache
    /\ handlers = [t \in Threads |-> Idle]
    /\ calls = 0
    /\ last_ok = 0

\* raise: the call ends with the exception and returns nothing.
Raise(e) ==
    /\ pc' = "raised"
    /\ exc' = e
    /\ UNCHANGED result

\* The call without the test of key_field.
CheckKeyFieldSkipped ==
    /\ pc' = "load_store"
    /\ UNCHANGED <<exc, result>>
    /\ UNCHANGED <<args, store_root, store_products, supplier_products,
                   merged_rows, log>>
    /\ UNCHANGED web

\* if key_field not in {"barkod", "stokKodu"}: raise ValueError(...)
CheckKeyField ==
    /\ IF key_field \notin KeyFields
       THEN Raise("ValueError_key_field")
       ELSE pc' = "load_store" /\ UNCHANGED <<exc, result>>
    /\ UNCHANGED <<args, store_root, store_products, supplier_products,
                   merged_rows, log>>
    /\ UNCHANGED web

\* store_root, store_products = load_products(store_xml, key_field)
LoadStore(loaded) ==
    /\ log' = log \o loaded.log
    /\ IF loaded.exc # "none"
       THEN /\ Raise(loaded.exc)
            /\ UNCHANGED <<store_root, store_products>>
       ELSE /\ pc' = "load_supplier"
            /\ store_root' = loaded.root
            /\ store_products' = loaded.products
            /\ UNCHANGED <<exc, result>>
    /\ UNCHANGED <<args, supplier_products, merged_rows>>
    /\ UNCHANGED web

\* _, supplier_products = load_products(supplier_xml, key_field)
LoadSupplier(loaded) ==
    /\ log' = log \o loaded.log
    /\ IF loaded.exc # "none"
       THEN /\ Raise(loaded.exc)
            /\ UNCHANGED supplier_products
       ELSE /\ pc' = "merge"
            /\ supplier_products' = loaded.products
            /\ UNCHANGED <<exc, result>>
    /\ UNCHANGED <<args, store_root, store_products, merged_rows>>
    /\ UNCHANGED web

\* After the loop: the exception it raised, or ET.tostring and the return.
Merged(st) ==
    /\ store_root' = st.root
    /\ merged_rows' = st.rows
    /\ log' = st.log
    /\ IF st.exc # "none"
       THEN Raise(st.exc)
       ELSE /\ pc' = "done"
            /\ result' = [returned |-> TRUE, xml |-> tostring(st.root), rows |-> st.rows]
            /\ UNCHANGED exc
    /\ UNCHANGED <<args, store_products, supplier_products>>
    /\ UNCHANGED web

\* merged_rows = [], the loop over store_products.items(), and what follows.
Merge(log0, warn) ==
    Merged(MergeLoop([root |-> store_root, rows |-> <<>>, log |-> log0, exc |-> "none"],
                     store_products, supplier_products, 1, warn))

(***************************************************************************)
(* compute_merged (app.py)                                                 *)
(***************************************************************************)

compute_merged_check ==
    /\ impl = "app" /\ pc = "call"
    /\ CheckKeyField

compute_merged_load_store ==
    /\ impl = "app" /\ pc = "load_store"
    /\ LoadStore(load_products(store_xml, key_field))

compute_merged_load_supplier ==
    /\ impl = "app" /\ pc = "load_supplier"
    /\ LoadSupplier(load_products(supplier_xml, key_field))

\* The two logger.info lines, then the loop with its warning on a negative
\* total.
compute_merged_merge ==
    /\ impl = "app" /\ pc = "merge"
    /\ Merge(log \o <<LogEntry("info", "store_count", Len(store_products)),
                      LogEntry("info", "supplier_count", Len(supplier_products))>>,
             TRUE)

(***************************************************************************)
(* merge_xml_feeds (stok.py)                                               *)
(***************************************************************************)

merge_xml_feeds_check ==
    /\ impl = "stok" /\ pc = "call"
    /\ CheckKeyField

merge_xml_feeds_load_store ==
    /\ impl = "stok" /\ pc = "load_store"
    /\ LoadStore(stok_load_products(store_xml, key_field))

merge_xml_feeds_load_supplier ==
    /\ impl = "stok" /\ pc = "load_supplier"
    /\ LoadSupplier(stok_load_products(supplier_xml, key_field))

\* The loop clamps a negative total without a log line.
merge_xml_feeds_merge ==
    /\ impl = "stok" /\ pc = "merge"
    /\ Merge(log, FALSE)

Next ==
    \/ compute_merged_check
    \/ compute_merged_load_store
    \/ compute_merged_load_supplier
    \/ compute_merged_merge
    \/ merge_xml_feeds_check
    \/ merge_xml_feeds_load_store
    \/ merge_xml_feeds_load_supplier
    \/ merge_xml_feeds_merge

(***************************************************************************)
(* The inputs                                                              *)
(***************************************************************************)

\* The largest number of children of the root of a store document and of a
\* supplier document.
MaxStoreUrun == 3

MaxSupplierUrun == 2

Urun(children) == Node("urun", children)

SeqsUpTo(S, n) == UNION {[1..k -> S] : k \in 0..n}

\* The children of the root of a store document: keys with and without
\* surrounding blanks, keys that repeat, a key field that is absent, empty or
\* blank, a product without <stok>, a stock that is no number, and a child
\* that is no <urun>.
StoreChildren ==
    { Urun(<<El("barkod", <<"k", "1">>), El("stokKodu", <<"s", "1">>),
             El("stok", <<"5">>), El("urunAdi", <<"A">>)>>),
      Urun(<<El("stok", <<"-", "1", "0">>), El("barkod", <<" ", "k", "1", " ">>),
             El("stokKodu", <<"s", "2">>)>>),
      Urun(<<El("barkod", <<"k", "2">>), El("urunAdi", <<" ", "B", " ">>)>>),
      Urun(<<El("barkod", <<" ", " ">>), El("stokKodu", <<" ", "s", "1">>),
             El("stok", <<"N", "a", "N">>)>>),
      Urun(<<El("urunAdi", <<"C">>), El("stokKodu", None), El("stok", <<"3">>)>>),
      Node("kategori", <<El("barkod", <<"k", "2">>), El("stok", <<"9">>)>>) }

\* The products of a supplier document: matches of store keys, a key that
\* repeats, a key no store product has.
SupplierChildren ==
    { Urun(<<El("barkod", <<"k", "1">>), El("stokKodu", <<"s", "1">>),
             El("stok", <<"3">>)>>),
      Urun(<<El("barkod", <<"k", "1", " ">>), El("stokKodu", <<"s", "9">>),
             El("stok", <<"-", "7">>)>>) }

\* Buffers the loader refuses: no XML, and XML with another root.
BadBuffers == {Malformed, Doc("products", <<>>)}

StoreBuffers ==
    BadBuffers \cup {Doc("urunler", c) : c \in SeqsUpTo(StoreChildren, MaxStoreUrun)}

SupplierBuffers ==
    BadBuffers \cup {Doc("urunler", c) : c \in SeqsUpTo(SupplierChildren, MaxSupplierUrun)}

\* The key_field arguments: the accepted ones and one that is not.
KeyFieldArgs == KeyFields \cup {"urunAdi"}

Init ==
    /\ impl \in {"app", "stok"}
    /\ store_xml \in StoreBuffers
    /\ supplier_xml \in SupplierBuffers
    /\ key_field \in KeyFieldArgs
    /\ Start
    /\ WebStart

Spec == Init /\ [][Next]_vars

\* The stock texts of the arithmetic: integers, decimal commas, negative
\* values, trailing zeros, an exponent, blanks, words, the special values of
\* the decimal module, and numbers of more digits than the context precision.
StockTexts ==
    { <<"5">>,
      <<"3">>,
      <<"-", "1", "0">>,
      <<"2">>,
      <<"1", "2", ",", "5">>,
      <<"0", ",", "5">>,
      <<"N", "/", "A">>,
      <<"N", "a", "N">>,
      <<"I", "n", "f", "i", "n", "i", "t", "y">>,
      <<"-", "I", "n", "f", "i", "n", "i", "t", "y">>,
      <<"s", "N", "a", "N">>,
      <<" ", "7", " ">>,
      <<"1", "e", "3">>,
      <<"0", ".", "1", "0">>,
      <<"-", "0">>,
      <<"-", "2", ".", "5">>,
      <<" ", " ">>,
      <<"1">> \o [i \in 1..27 |-> "0"] \o <<"1">>,
      [i \in 1..28 |-> "9"] \o <<",", "5">> }

OneProduct(stok) ==
    Doc("urunler", <<Urun(<<El("barkod", <<"k", "1">>)>> \o stok)>>)

StokChildren == {<<>>, <<El("stok", None)>>} \cup {<<El("stok", t)>> : t \in StockTexts}

\* One store product and at most one supplier product with its key, over
\* every pair of stock texts.
InitStock ==
    /\ impl \in {"app", "stok"}
    /\ store_xml \in {OneProduct(s) : s \in StokChildren}
    /\ supplier_xml \in {Doc("urunler", <<>>)} \cup {OneProduct(s) : s \in StokChildren}
    /\ key_field = "barkod"
    /\ Start
    /\ WebStart

SpecStock == InitStock /\ [][Next]_vars

(***************************************************************************)
(* The front-end of stok.py                                                *)
(*                                                                         *)
(* The server handles each request in a thread of its own.  The threads    *)
(* share MERGED_XML_CACHE; a step of a thread is the part of a view up to  *)
(* and including one access to the cache.  merge_xml_feeds shares nothing  *)
(* with other calls and is one step.  A request is numbered when it is     *)
(* received, and a value in the cache carries the number of the /merge     *)
(* request that stored it.                                                 *)
(***************************************************************************)

FeedsRaise(e) == [exc |-> e, xml |-> Malformed, rows |-> <<>>]

\* merged_xml_bytes = ET.tostring(...); return merged_xml_bytes, merged_rows
FeedsReturn(st) ==
    IF st.exc # "none" THEN FeedsRaise(st.exc)
    ELSE [exc |-> "none", xml |-> tostring(st.root), rows |-> st.rows]

\* merged_rows = [] and the loop of merge_xml_feeds
FeedsMerge(loaded, supplier) ==
    IF supplier.exc # "none" THEN FeedsRaise(supplier.exc)
    ELSE FeedsReturn(MergeLoop([root |-> loaded.root, rows |-> <<>>, log |-> <<>>,
                                exc |-> "none"],
                               loaded.products, supplier.products, 1, FALSE))

\* _, supplier_products = load_products(supplier_xml, key_field)
FeedsLoadSupplier(loaded, supplier_bytes, kf) ==
    IF loaded.exc # "none" THEN FeedsRaise(loaded.exc)
    ELSE FeedsMerge(loaded, stok_load_products(supplier_bytes, kf))

\* merge_xml_feeds(store_xml, supplier_xml, key_field) as one call: the
\* exception it raises, or the document and the rows it returns.
merge_xml_feeds(store_bytes, supplier_bytes, kf) ==
    IF kf \notin KeyFields THEN FeedsRaise("ValueError_key_field")
    ELSE FeedsLoadSupplier(stok_load_products(store_bytes, kf), supplier_bytes, kf)

\* The exceptions of merge_xml_feeds that are ValueErrors.
ValueErrors == {"ValueError_key_field", "ValueError_format", "ValueError_root"}

\* redirect(url_for("index")) after flash(message)
Redirect(message) == [kind |-> "redirect", flash |-> message, body |-> <<>>]

\* send_file(BytesIO(body), ...)
SendFile(body) == [kind |-> "file", flash |-> "", body |-> body]

\* The thread t has no request to handle, and the server may receive one.
Free(t) == handlers[t].pc \in {"idle", "done"}

\* The largest number of requests the server receives.
MaxRequests == 4

\* The thread t takes the next request.
Receive(t) == Free(t) /\ calls < MaxRequests /\ calls' = calls + 1

\* The request of t ends with the response.
Respond(t, route, response) ==
    handlers' = [handlers EXCEPT ![t] =
                   [Idle EXCEPT !.route = route, !.pc = "done", !.call = calls',
                                !.after_ok = (last_ok # 0), !.response = response]]

\* merge(), after the uploads are read: the call of merge_xml_feeds, its
\* exceptions, and the locals merged_xml_bytes and merged_rows.
MergeComputed(t, upload, feeds) ==
    IF feeds.exc \in ValueErrors THEN Respond(t, "merge", Redirect(feeds.exc))
    ELSE IF feeds.exc # "none" THEN Respond(t, "merge", Redirect("unexpected"))
    ELSE handlers' = [handlers EXCEPT ![t] =
                        [Idle EXCEPT !.route = "merge", !.pc = "store_data",
                                     !.call = calls', !.upload = upload,
                                     !.xml = feeds.xml, !.rows = feeds.rows]]

\* merge() up to the first access to the cache: a file that is not in
\* request.files, a file without name, then the merge.
MergeUpload(t, upload) ==
    IF upload.store = "absent" \/ upload.supplier = "absent"
    THEN Respond(t, "merge", Redirect("select_files"))
    ELSE IF upload.store = "empty" \/ upload.supplier = "empty"
    THEN Respond(t, "merge", Redirect("upload_error"))
    ELSE MergeComputed(t, upload,
                       merge_xml_feeds(upload.store_bytes, upload.supplier_bytes,
                                       upload.key_field))

\* An upload of two files and the key_field of the form.
Upload(store_bytes, supplier_bytes, kf) ==
    [store |-> "file", supplier |-> "file", store_bytes |-> store_bytes,
     supplier_bytes |-> supplier_bytes, key_field |-> kf]

\* The uploads: two merges with rows, a merge of a store document without
\* products, and the requests that fail: a key_field that is not accepted,
\* a store file that is no XML, a supplier document with another root, a
\* stock that makes the merge raise InvalidOperation, a missing file and a
\* file without name.
Uploads ==
    LET a  == Urun(<<El("barkod", <<"k", "1">>), El("stok", <<"5">>),
                     El("urunAdi", <<"A">>)>>)
        c  == Urun(<<El("barkod", <<"k", "2">>)>>)
        d  == Urun(<<El("barkod", <<"k", "3">>), El("stok", <<"N", "a", "N">>)>>)
        s1 == Urun(<<El("barkod", <<"k", "1">>), El("stok", <<"3">>)>>)
        ok == Upload(Doc("urunler", <<a>>), Doc("urunler", <<s1>>), "barkod")
    IN  { ok,
          Upload(Doc("urunler", <<c>>), Doc("urunler", <<>>), "barkod"),
          Upload(Doc("urunler", <<>>), Doc("urunler", <<s1>>), "barkod"),
          [ok EXCEPT !.key_field = "urunAdi"],
          [ok EXCEPT !.store_bytes = Malformed],
          [ok EXCEPT !.supplier_bytes = Doc("products", <<>>)],
          [ok EXCEPT !.store_bytes = Doc("urunler", <<d>>)],
          [ok EXCEPT !.store = "absent"],
          [ok EXCEPT !.supplier = "empty"] }

\* POST /merge, lines 251-278
merge_upload(t) ==
    /\ Receive(t)
    /\ \E upload \in Uploads : MergeUpload(t, upload)
    /\ UNCHANGED <<cache, last_ok>>
    /\ UNCHANGED core

\* MERGED_XML_CACHE["data"] = merged_xml_bytes
merge_store_data(t) ==
    /\ handlers[t].route = "merge" /\ handlers[t].pc = "store_data"
    /\ cache' = [cache EXCEPT !.data = [call |-> handlers[t].call, val |-> handlers[t].xml]]
    /\ handlers' = [handlers EXCEPT ![t].pc = "store_rows"]
    /\ UNCHANGED <<calls, last_ok>>
    /\ UNCHANGED core

\* MERGED_XML_CACHE["rows"] = merged_rows, the flash and the redirect
merge_store_rows(t) ==
    /\ handlers[t].route = "merge" /\ handlers[t].pc = "store_rows"
    /\ cache' = [cache EXCEPT !.rows = [call |-> handlers[t].call, val |-> handlers[t].rows]]
    /\ handlers' = [handlers EXCEPT ![t].pc = "done", ![t].response = Redirect("merged")]
    /\ last_ok' = handlers[t].call
    /\ UNCHANGED calls
    /\ UNCHANGED core

\* if not xml_bytes: a key that is not in the dict gives None, and bytes of
\* length 0 are false too.  A document is never of length 0.
DownloadMerged(entry) ==
    IF entry.call = 0 THEN Redirect("merge_first") ELSE SendFile(entry.val)

\* GET /download-merged
download_merged(t) ==
    /\ Receive(t)
    /\ Respond(t, "download_merged", DownloadMerged(cache.data))
    /\ UNCHANGED <<cache, last_ok>>
    /\ UNCHANGED core

\* The lines of the CSV file: the header, then a line for each row.
CsvOf(rows) ==
    <<"header">> \o [i \in 1..Len(rows) |->
                       <<rows[i].barkod, rows[i].key, rows[i].urunAdi, rows[i].stok_magaza,
                         rows[i].stok_tedarikci, rows[i].stok_toplam>>]

\* if not rows: a key that is not in the dict gives None, and a list
\* without rows is false too.
DownloadMergedCsv(entry) ==
    IF entry.call = 0 \/ entry.val = <<>> THEN Redirect("merge_first")
    ELSE SendFile(CsvOf(entry.val))

\* GET /download-merged-csv
download_merged_csv(t) ==
    /\ Receive(t)
    /\ Respond(t, "download_merged_csv", DownloadMergedCsv(cache.rows))
    /\ UNCHANGED <<cache, last_ok>>
    /\ UNCHANGED core

NextWeb ==
    \/ \E t \in Threads : merge_upload(t)
    \/ \E t \in Threads : merge_store_data(t)
    \/ \E t \in Threads : merge_store_rows(t)
    \/ \E t \in Threads : download_merged(t)
    \/ \E t \in Threads : download_merged_csv(t)

\* The front-end before its first request; no call of the merge is followed.
InitWeb ==
    /\ impl = "stok"
    /\ store_xml = Malformed
    /\ supplier_xml = Malformed
    /\ key_field = "barkod"
    /\ Start
    /\ WebStart

SpecWeb == InitWeb /\ [][NextWeb]_vars

(***************************************************************************)
(* What the claims speak of                                                *)
(***************************************************************************)

\* The children of the root of the store document and of the supplier
\* document as they were given, and of the document the call returned.
StoreIn == store_xml.root.children

SupplierIn == supplier_xml.root.children

Out == result.xml.root.children

\* A product with a key: an <urun> whose key field is there with a text that
\* is not blank.  Its key is that text without the surrounding blanks.
HasKey(node) ==
    /\ node.tag = "urun"
    /\ LET key_el == find(node, key_field)
       IN  /\ key_el # 0
           /\ node.children[key_el].text # None
           /\ strip(node.children[key_el].text) # <<>>

KeyOf(node) == strip(node.children[find(node, key_field)].text)

\* The places of the products with the key k among children.
KeyedAt(children, k) ==
    {j \in DOMAIN children : HasKey(children[j]) /\ KeyOf(children[j]) = k}

StockBearing(node) == find(node, "stok") # 0

MapKeys(products) == {products[i].key : i \in DOMAIN products}

RowsOf(k) == {i \in DOMAIN result.rows : result.rows[i].key = k}

(***************************************************************************)
(* C1                                                                      *)
(***************************************************************************)

\* C1, as claimed: when the merge has returned, every key of the store
\* mapping has exactly one row and is the key of exactly one product of the
\* returned document that has a <stok>, and no other key is the key of a row
\* or of a product of the returned document.
C1_AsClaimed ==
    pc = "done" =>
        /\ \A k \in MapKeys(store_products) :
              /\ Cardinality(RowsOf(k)) = 1
              /\ Cardinality({j \in KeyedAt(Out, k) : StockBearing(Out[j])}) = 1
        /\ \A i \in DOMAIN result.rows : result.rows[i].key \in MapKeys(store_products)
        /\ \A j \in DOMAIN Out : HasKey(Out[j]) => KeyOf(Out[j]) \in MapKeys(store_products)

\* C1, amended: when the merge has returned, every key of the store mapping
\* has exactly one row and is the key of at least one product of the returned
\* document that has a <stok>, of exactly one when only one product of the
\* store document has the key; no other key is the key of a row or of a
\* product of the returned document.
C1_KeysOfResult ==
    pc = "done" =>
        /\ \A k \in MapKeys(store_products) :
              /\ Cardinality(RowsOf(k)) = 1
              /\ Cardinality({j \in KeyedAt(Out, k) : StockBearing(Out[j])}) >= 1
              /\ Cardinality(KeyedAt(StoreIn, k)) = 1
                   => Cardinality({j \in KeyedAt(Out, k) : StockBearing(Out[j])}) = 1
        /\ \A i \in DOMAIN result.rows : result.rows[i].key \in MapKeys(store_products)
        /\ \A j \in DOMAIN Out : HasKey(Out[j]) => KeyOf(Out[j]) \in MapKeys(store_products)

\* C1, witness: a merge has returned two rows for a store document in which
\* a key repeats, and the supplier document has a key no store product has.
C1_Witness ==
    /\ pc = "done"
    /\ Len(result.rows) >= 2
    /\ \E k \in MapKeys(store_products) : Cardinality(KeyedAt(StoreIn, k)) >= 2
    /\ \E j \in DOMAIN SupplierIn :
          /\ HasKey(SupplierIn[j])
          /\ KeyOf(SupplierIn[j]) \notin MapKeys(store_products)

(***************************************************************************)
(* C2, C3, C4: the arithmetic                                              *)
(***************************************************************************)

\* The sum of two finite decimals as a number: every digit, no rounding.
ExactSum(a, b) == AddAtExp(a, b, IF a.exp < b.exp THEN a.exp ELSE b.exp)

IsNegative(x) == x.sign = 1 /\ ~IsZeroDigits(x.coef)

\* Two finite decimals are the same number.
SameNumber(x, y) ==
    LET e == IF x.exp < y.exp THEN x.exp ELSE y.exp
    IN  /\ Rescaled(x, e) = Rescaled(y, e)
        /\ IsZeroDigits(x.coef) \/ x.sign = y.sign

\* The text of the first <stok> of a product (None if it has none).
StokTextIn(node) == StokTextOf(node, find(node, "stok"))

\* A text denotes the finite decimal x.
Denotes(text, x) ==
    /\ text # None
    /\ LET d == DecimalOfText(text)
       IN  d.ok /\ d.val.kind = "fin" /\ SameNumber(d.val, x)

\* A stock text that is not blank and denotes no finite decimal number.
NotANumber(text) ==
    /\ text # None
    /\ strip(text) # <<>>
    /\ \/ ~DecimalOfText(replace_comma(strip(text))).ok
       \/ DecimalOfText(replace_comma(strip(text))).val.kind # "fin"

Logged(event) == {i \in DOMAIN log : log[i].event = event}

\* C2, as claimed: when the merge has returned, the <stok> of every product
\* of the store mapping whose stock a and supplier stock b (0 without a
\* match) are numbers with a + b >= 0 holds a text that denotes a + b exactly.
C2_AsClaimed ==
    pc = "done" =>
        \A i \in DOMAIN store_products :
            LET a == store_products[i].stok
                b == SupplierStock(supplier_products, store_products[i].key)
            IN  (a.kind = "fin" /\ b.kind = "fin" /\ ~IsNegative(ExactSum(a, b)))
                  => Denotes(StokTextIn(Out[store_products[i].urun]), ExactSum(a, b))

\* C3, as claimed: when the merge has returned, for every product of the
\* store mapping whose stock a and supplier stock b are numbers with
\* a + b < 0, the <stok> holds 0, the row's total is 0 and the log holds a
\* warning of the negative total.
C3_AsClaimed ==
    pc = "done" =>
        \A i \in DOMAIN store_products :
            LET a == store_products[i].stok
                b == SupplierStock(supplier_products, store_products[i].key)
            IN  (a.kind = "fin" /\ b.kind = "fin" /\ IsNegative(ExactSum(a, b)))
                  => /\ StokTextIn(Out[store_products[i].urun]) = <<"0">>
                     /\ result.rows[i].stok_toplam = PyInt(DecimalZero, <<0>>)
                     /\ Logged("negative_stock") # {}

\* C4, as claimed: the merge of two documents that are well-formed but for
\* their stock texts never raises, and every product whose stock text is not
\* blank and denotes no finite decimal number is in its mapping with the
\* stock 0, with a warning of that text in the log.
C4_AsClaimed ==
    /\ exc = "none"
    /\ \A i \in DOMAIN store_products :
          NotANumber(StokTextIn(StoreIn[store_products[i].urun]))
            => /\ store_products[i].stok = DecimalZero
               /\ \E l \in Logged("non_numeric_stock") :
                     log[l].arg = strip(StokTextIn(StoreIn[store_products[i].urun]))
    /\ \A i \in DOMAIN supplier_products :
          NotANumber(StokTextIn(SupplierIn[supplier_products[i].urun]))
            => /\ supplier_products[i].stok = DecimalZero
               /\ \E l \in Logged("non_numeric_stock") :
                     log[l].arg = strip(StokTextIn(SupplierIn[supplier_products[i].urun]))

(***************************************************************************)
(* C5, C6: the errors                                                      *)
(***************************************************************************)

\* C5: with a key_field that is not accepted the call does nothing but raise
\* the ValueError of the key field: no document is parsed (no tree, no
\* mapping, no line of the parser in the log), nothing is returned, whatever
\* the two buffers hold.
C5_InvalidKeyField ==
    key_field \notin KeyFields =>
        /\ pc \in {"call", "raised"}
        /\ pc = "raised" => exc = "ValueError_key_field"
        /\ store_root = NoTree
        /\ store_products = <<>> /\ supplier_products = <<>> /\ merged_rows = <<>>
        /\ log = <<>>
        /\ ~result.returned

\* C5, witness: the call has raised for its key_field on a store buffer that
\* is no XML and a supplier buffer with another root.
C5_Witness ==
    /\ key_field \notin KeyFields
    /\ pc = "raised"
    /\ ~store_xml.wf
    /\ supplier_xml.wf /\ supplier_xml.root.tag # "urunler"

\* The error a buffer makes the loader raise, "none" if it loads.
LoadError(buffer) ==
    IF ~buffer.wf THEN "ValueError_format"
    ELSE IF buffer.root.tag # "urunler" THEN "ValueError_root"
    ELSE "none"

FirstLoadError ==
    IF LoadError(store_xml) # "none" THEN LoadError(store_xml) ELSE LoadError(supplier_xml)

\* C6: in a call that has passed the test of its key field, a document that
\* is no XML or has another root makes the merge raise the error of that
\* document (of the store document if both fail; the two errors differ),
\* return nothing and build no row; the store tree is as it was parsed
\* until both documents are loaded.
C6_LoadFailureAborts ==
    (key_field \in KeyFields /\ FirstLoadError # "none") =>
        /\ pc \in {"call", "load_store", "load_supplier", "raised"}
        /\ pc = "raised" => exc = FirstLoadError
        /\ ~result.returned
        /\ merged_rows = <<>>
        /\ store_root \in {NoTree, store_xml.root}

\* C6, witness: the store document was loaded with products in its mapping,
\* and the supplier document, which has another root, made the call raise.
C6_Witness ==
    /\ key_field \in KeyFields
    /\ pc = "raised"
    /\ LoadError(store_xml) = "none"
    /\ LoadError(supplier_xml) = "ValueError_root"
    /\ store_products # <<>>
    /\ store_root = store_xml.root

(***************************************************************************)
(* C7, C8: what the merge leaves alone                                     *)
(***************************************************************************)

\* The product out is the product inn but for its first <stok>: appended if
\* inn has none, else with any text in the place it had.
StokOnlyChange(inn, out) ==
    /\ out.tag = inn.tag
    /\ IF find(inn, "stok") = 0
       THEN /\ Len(out.children) = Len(inn.children) + 1
            /\ SubSeq(out.children, 1, Len(inn.children)) = inn.children
            /\ out.children[Len(out.children)].tag = "stok"
       ELSE /\ Len(out.children) = Len(inn.children)
            /\ \A c \in DOMAIN inn.children :
                  IF c = find(inn, "stok") THEN out.children[c].tag = "stok"
                  ELSE out.children[c] = inn.children[c]

\* Child j of the store root is the node of an entry of the store mapping.
Indexed(j) == \E i \in DOMAIN store_products : store_products[i].urun = j

\* C7: the store tree keeps its root and the children of the root, none
\* added, removed or moved; a child differs from the one parsed only if it
\* is an indexed product, and then only in its <stok>; once the merge has
\* returned, every indexed product of the returned document has its <stok>,
\* appended if it had none, and every other child is as it was.
C7_Frame ==
    /\ store_root # NoTree =>
          /\ store_root.tag = store_xml.root.tag
          /\ Len(store_root.children) = Len(StoreIn)
          /\ \A j \in DOMAIN StoreIn :
                \/ store_root.children[j] = StoreIn[j]
                \/ Indexed(j) /\ StokOnlyChange(StoreIn[j], store_root.children[j])
    /\ pc = "done" =>
          /\ result.xml.root.tag = store_xml.root.tag
          /\ Len(Out) = Len(StoreIn)
          /\ \A j \in DOMAIN StoreIn :
                IF Indexed(j)
                THEN StockBearing(Out[j]) /\ StokOnlyChange(StoreIn[j], Out[j])
                ELSE Out[j] = StoreIn[j]

\* C7, witness: the merge has returned a document in which one indexed
\* product got a <stok> it did not have, another had the text of its <stok>
\* changed, and a child of the root is not indexed.
C7_Witness ==
    /\ pc = "done"
    /\ \E j \in DOMAIN StoreIn : Indexed(j) /\ ~StockBearing(StoreIn[j])
    /\ \E j \in DOMAIN StoreIn :
          Indexed(j) /\ StockBearing(StoreIn[j]) /\ Out[j] # StoreIn[j]
    /\ \E j \in DOMAIN StoreIn : ~Indexed(j)

\* C8: a store <urun> without a key (no key field, a key field without
\* text, a blank one) is the node of no entry of the store mapping and is
\* in the store tree as it was parsed; once the merge has returned it is in
\* the returned document as it was parsed, and every row is the row of an
\* entry of the mapping, with the key of a product that has that key.
C8_NoKeyUntouched ==
    /\ \A j \in DOMAIN StoreIn :
          (StoreIn[j].tag = "urun" /\ ~HasKey(StoreIn[j])) =>
              /\ ~Indexed(j)
              /\ store_root # NoTree => store_root.children[j] = StoreIn[j]
              /\ pc = "done" => Out[j] = StoreIn[j]
    /\ pc = "done" =>
          /\ Len(result.rows) = Len(store_products)
          /\ \A i \in DOMAIN result.rows :
                /\ result.rows[i].key = store_products[i].key
                /\ KeyedAt(StoreIn, result.rows[i].key) # {}

\* C8, witness: the merge has returned rows for a store document with a
\* product that has no key field and a <stok>, and a product whose key field
\* has no text or a blank one, and a supplier document with products.
C8_Witness ==
    /\ pc = "done"
    /\ Len(result.rows) >= 1
    /\ SupplierIn # <<>>
    /\ \E j \in DOMAIN StoreIn :
          /\ StoreIn[j].tag = "urun"
          /\ find(StoreIn[j], key_field) = 0
          /\ StockBearing(StoreIn[j])
    /\ \E j \in DOMAIN StoreIn :
          /\ StoreIn[j].tag = "urun"
          /\ find(StoreIn[j], key_field) # 0
          /\ ~HasKey(StoreIn[j])

(***************************************************************************)
(* C9, C10: keys that repeat                                               *)
(***************************************************************************)

\* The last place of a product with the key k.
LastAt(children, k) ==
    LET at == KeyedAt(children, k)
    IN  CHOOSE j \in at : \A j2 \in at : j >= j2

\* C9, as claimed: when the merge has returned, the rows are in the order
\* in which the products they describe, for each row the product whose <stok>
\* holds the total of the row's key, stand in the store document.
C9_AsClaimed ==
    pc = "done" =>
        /\ \A i \in DOMAIN result.rows : KeyedAt(StoreIn, result.rows[i].key) # {}
        /\ \A i, i2 \in DOMAIN result.rows :
              i < i2 => LastAt(StoreIn, result.rows[i].key)
                          < LastAt(StoreIn, result.rows[i2].key)

\* The stock of the last product with the key k, 0 if there is none.
LastStock(children, k) ==
    LET at == KeyedAt(children, k)
    IN  IF at = {} THEN DecimalZero
        ELSE parse_decimal(StokTextIn(children[CHOOSE j \in at : \A j2 \in at : j >= j2])).val

ClampedSum(a, b) ==
    LET total == ExactSum(a, b)
    IN  IF IsNegative(total) THEN DecimalZero ELSE total

\* An entry of a mapping holds the last product with its key and the stock of
\* that product, and every key of a product is a key of the mapping.
LastWins(products, children) ==
    /\ \A i \in DOMAIN products :
          LET at == KeyedAt(children, products[i].key)
          IN  /\ at # {}
              /\ products[i].urun \in at
              /\ \A j \in at : j <= products[i].urun
              /\ products[i].stok
                   = parse_decimal(StokTextIn(children[products[i].urun])).val
    /\ \A j \in DOMAIN children :
          HasKey(children[j]) => KeyOf(children[j]) \in MapKeys(products)

\* C10: the store mapping, once loaded, and the supplier mapping, once
\* loaded, hold for every key the last product with that key and its stock;
\* when the merge has returned, a product whose key a later product repeats
\* (a product with a key and not the node of its entry) is as it was parsed,
\* each key has one row, with the stock of the last store product and of the
\* last supplier product with that key, and the
\* <stok> of the last store product holds their sum, or 0 if it is negative.
C10_LastWins ==
    /\ store_root # NoTree => LastWins(store_products, StoreIn)
    /\ pc \in {"merge", "done"} => LastWins(supplier_products, SupplierIn)
    /\ pc = "done" =>
          /\ \A j \in DOMAIN StoreIn :
                (HasKey(StoreIn[j]) /\ ~Indexed(j)) => Out[j] = StoreIn[j]
          /\ \A e \in DOMAIN store_products :
                LET k == store_products[e].key
                    a == store_products[e].stok
                    b == LastStock(SupplierIn, k)
                IN  /\ Cardinality(RowsOf(k)) = 1
                    /\ \A i \in RowsOf(k) :
                          /\ result.rows[i].stok_magaza = PyNumber(a).val
                          /\ result.rows[i].stok_tedarikci = PyNumber(b).val
                    /\ Denotes(StokTextIn(Out[store_products[e].urun]), ClampedSum(a, b))

\* C10, witness: the merge has returned for a store document and a supplier
\* document in each of which two products with different stocks have the
\* same key.
C10_Witness ==
    /\ pc = "done"
    /\ \E k \in MapKeys(store_products) :
          /\ \E j \in KeyedAt(StoreIn, k) :
                /\ j # LastAt(StoreIn, k)
                /\ StokTextIn(StoreIn[j]) # StokTextIn(StoreIn[LastAt(StoreIn, k)])
          /\ \E j \in KeyedAt(SupplierIn, k) :
                /\ j # LastAt(SupplierIn, k)
                /\ StokTextIn(SupplierIn[j]) # StokTextIn(SupplierIn[LastAt(SupplierIn, k)])

(***************************************************************************)
(* C11: the merged document, loaded again                                  *)
(***************************************************************************)

\* The merged document loaded by the load_products of the implementation.
Reloaded ==
    IF impl = "app" THEN load_products(result.xml, key_field)
    ELSE stok_load_products(result.xml, key_field)

\* C11: when the merge has returned, load_products of the returned document
\* with the same key field raises nothing and yields a mapping with the keys
\* of the store mapping, in its order, each with a finite stock that is the
\* sum of the stock of the store mapping and the stock of the last supplier
\* product with the key (0 if there is none), or 0 if the sum is negative.
C11_RoundTrip ==
    pc = "done" =>
        LET again == Reloaded
        IN  /\ again.exc = "none"
            /\ Len(again.products) = Len(store_products)
            /\ \A i \in DOMAIN store_products :
                  /\ i \in DOMAIN again.products
                  /\ again.products[i].key = store_products[i].key
                  /\ again.products[i].stok.kind = "fin"
                  /\ SameNumber(again.products[i].stok,
                                ClampedSum(store_products[i].stok,
                                           LastStock(SupplierIn, store_products[i].key)))

\* C11, witness: the merge has returned a document for a store document with
\* a key that repeats and a product without key, and the stock of a product
\* is not the stock it had.
C11_Witness ==
    /\ pc = "done"
    /\ \E j \in DOMAIN StoreIn : HasKey(StoreIn[j]) /\ ~Indexed(j)
    /\ \E j \in DOMAIN StoreIn : StoreIn[j].tag = "urun" /\ ~HasKey(StoreIn[j])
    /\ \E i \in DOMAIN store_products :
          /\ KeyedAt(SupplierIn, store_products[i].key) # {}
          /\ ~SameNumber(Reloaded.products[i].stok, store_products[i].stok)

(***************************************************************************)
(* C12: the numbers of a row                                               *)
(***************************************************************************)

\* C12, as claimed: when the merge has returned, in every row the total is
\* the sum of the row's store stock and supplier stock, or 0 if that sum is
\* negative, and is the number the <stok> of the product of the row (the
\* last store product with the row's key) holds.
C12_AsClaimed ==
    pc = "done" =>
        \A i \in DOMAIN result.rows :
            LET row == result.rows[i]
            IN  /\ SameNumber(row.stok_toplam.val,
                              ClampedSum(row.stok_magaza.val, row.stok_tedarikci.val))
                /\ KeyedAt(StoreIn, row.key) # {}
                /\ Denotes(StokTextIn(Out[LastAt(StoreIn, row.key)]), row.stok_toplam.val)

(***************************************************************************)
(* C13, C14, C15: the cache of the front-end                               *)
(***************************************************************************)

\* The document and the rows are those that one call of merge_xml_feeds
\* returns.
OfOneCall(xml, rows) ==
    \E u \in Uploads :
        LET feeds == merge_xml_feeds(u.store_bytes, u.supplier_bytes, u.key_field)
        IN  feeds.exc = "none" /\ feeds.xml = xml /\ feeds.rows = rows

\* C13, as claimed: in every state in which MERGED_XML_CACHE holds "data" and
\* "rows", the two are the document and the rows that one call of
\* merge_xml_feeds returned.
C13_AsClaimed ==
    (cache.data.call # 0 /\ cache.rows.call # 0)
        => OfOneCall(cache.data.val, cache.rows.val)

\* Every request the server has received is answered.
Quiet == \A t \in Threads : handlers[t].pc \in {"idle", "done"}

\* C14, as claimed: after any /merge requests, failed ones among them, the
\* cache is empty if no /merge request has ended in success, and else holds
\* the document and the rows of the last one that has.
C14_AsClaimed ==
    Quiet =>
        IF last_ok = 0 THEN cache = EmptyCache
        ELSE /\ cache.data.call = last_ok
             /\ cache.rows.call = last_ok
             /\ OfOneCall(cache.data.val, cache.rows.val)

\* C15, as claimed: a /download-merged or /download-merged-csv request
\* received after a /merge request has ended in success is answered with a
\* file, not with the redirect that asks for a merge first.
C15_AsClaimed ==
    \A t \in Threads :
        (/\ handlers[t].route \in {"download_merged", "download_merged_csv"}
         /\ handlers[t].pc = "done"
         /\ handlers[t].after_ok)
            => handlers[t].response.kind = "file"

====
